---- MODULE Spec2Model ----
(***************************************************************************)
(* Model of maia-wasm/src/waterfall_interaction.rs: the waterfall          *)
(* interaction controller (zoom by wheel and pinch, pan by drag, and the   *)
(* frequency overflow accumulator that turns pan beyond the edge of the    *)
(* span into retune requests).                                             *)
(*                                                                         *)
(* Numbers.  The code computes in f32.  A frequency is modelled in fixed   *)
(* point as an integer count of 1/Scale; zoom is an integer; a dilation is *)
(* a fraction [n, d].  The events enumerated are those on which every f32  *)
(* operation of the code is exact (zooms and dilations that are powers of  *)
(* two, dyadic frequencies of small magnitude), so that the fixed-point    *)
(* result is the f32 result: the Exact... guards state it.                 *)
(* Hertz values (f64 in the code) are integer counts of 1/HzScale Hz.      *)
(***************************************************************************)
EXTENDS Integers, Sequences, FiniteSets, TLC

\* ---------------------------------------------------------------- bounds
\* Drag deltas delivered by the pointer tracker: dx in -MaxDx..MaxDx pixels.
MaxDx == 2
\* Events followed in one long gesture.
MaxGestureSteps == 6
\* Number of events handled in one behaviour.
MaxSteps == 5
\* Arguments tried on the clamp functions: |frequency| <= MaxClampInput,
\* dilation * zoom <= MaxClampInput * max_zoom.
MaxClampInput == 2

\* ------------------------------------------------------------ environment
\* render_engine.canvas_dims().css_pixels().0
CanvasWidth == 4
\* Fixed-point resolution of normalized frequencies: 1/Scale.
Scale == 128 * CanvasWidth
\* Slots of the pointer tracker.
MaxPointers == 2

\* Dilations delivered by pinch gestures (f32 > 0), as fractions n/d.
Dilations ==
    { [n |-> 1, d |-> 4], [n |-> 1, d |-> 1],
      [n |-> 2, d |-> 1], [n |-> 4, d |-> 1] }
\* Wheel deltas, in units of 1000 * ln 2 (one octave of zoom).
WheelOctaves == {-1, 0, 1}
\* Pivot pixels (PointerGesture::Pinch center.0, WheelEvent client_x).
Pivots == { 0, CanvasWidth \div 2, CanvasWidth }

Abs(x) == IF x < 0 THEN -x ELSE x

VARIABLES
    zoom,                  \* Waterfall zoom (get_zoom / set_zoom)
    center_frequency,      \* Waterfall center frequency, in 1/Scale
    center_freq_overflow,  \* WaterfallInteraction.center_freq_overflow, in 1/Scale
    pointers,              \* number of active pointers of the PointerTracker
    tracker_borrowed,      \* a RefMut of pointer_tracker was leaked by a panic
    fc,                    \* Waterfall center frequency in Hz, in 1/HzScale
    fs,                    \* Waterfall sample rate in Hz, in 1/HzScale
    requests,              \* arguments of set_rx_lo_frequency in the last handler
    result,                \* outcome of the last handler
    last,                  \* the event the last handler was called with
    before,                \* the state that handler started from
    steps,                 \* number of events handled so far
    hist                   \* bookkeeping of the gesture in progress

vars == << zoom, center_frequency, center_freq_overflow, pointers,
           tracker_borrowed, fc, fs, requests, result, last, before, steps,
           hist >>

\* ------------------------------------------------------------- primitives
min_zoom == 1
max_zoom == 128

\* Mutant: the upper limit of the zoom is not applied.
clamp_zoom_no_max(n, d) ==
    IF n < min_zoom * d THEN min_zoom ELSE n \div d

\* clamp_zoom applied to the product n/d (dilation * zoom).
clamp_zoom(n, d) ==
    IF n < min_zoom * d THEN min_zoom
    ELSE IF n > max_zoom * d THEN max_zoom
    ELSE n \div d

\* Mutant: a frequency beyond the range wraps around instead of saturating.
clamp_center_wrapped(frequency, z) ==
    LET max_freq == Scale - Scale \div z IN
    IF frequency < -max_freq THEN frequency + 2 * max_freq
    ELSE IF frequency > max_freq THEN frequency - 2 * max_freq
    ELSE frequency

\* Mutant: the range is the visible half-width 1/zoom.
clamp_center_half_width(frequency, z) ==
    LET max_freq == Scale \div z IN
    IF frequency < -max_freq THEN -max_freq
    ELSE IF frequency > max_freq THEN max_freq
    ELSE frequency

clamp_center_frequency(frequency, z) ==
    LET max_freq == Scale - Scale \div z IN
    IF frequency < -max_freq THEN -max_freq
    ELSE IF frequency > max_freq THEN max_freq
    ELSE frequency

units_per_px(z) ==
    LET width_units == (2 * Scale) \div z IN
    width_units \div CanvasWidth

\* f32 exactness of units_per_px and of 1/zoom at this zoom.
ExactZoom(z) ==
    /\ Scale % z = 0
    /\ (2 * Scale) % (z * CanvasWidth) = 0

\* Mutant: no early return when the clamped zoom equals the current zoom.
apply_dilation_no_return(z, freq0, dilation, center) ==
    LET new_zoom == clamp_zoom(dilation.n * z, dilation.d)
        c == freq0 + center * units_per_px(z) - Scale \div z
        freq1 == ((dilation.n - dilation.d) * c + dilation.d * freq0)
                     \div dilation.n
    IN [zoom |-> new_zoom, freq |-> clamp_center_frequency(freq1, new_zoom)]

\* Mutant: the pivot is measured from the center of the window, not from
\* its left edge.
apply_dilation_no_edge(z, freq0, dilation, center) ==
    LET new_zoom == clamp_zoom(dilation.n * z, dilation.d) IN
    IF new_zoom = z
    THEN [zoom |-> z, freq |-> freq0]
    ELSE LET c == freq0 + center * units_per_px(z)
             freq1 == ((dilation.n - dilation.d) * c + dilation.d * freq0)
                          \div dilation.n
         IN [zoom |-> new_zoom,
             freq |-> clamp_center_frequency(freq1, new_zoom)]

\* Mutant: the new center is clamped to the range of the old zoom.
apply_dilation_old_range(z, freq0, dilation, center) ==
    LET new_zoom == clamp_zoom(dilation.n * z, dilation.d) IN
    IF new_zoom = z
    THEN [zoom |-> z, freq |-> freq0]
    ELSE LET c == freq0 + center * units_per_px(z) - Scale \div z
             freq1 == ((dilation.n - dilation.d) * c + dilation.d * freq0)
                          \div dilation.n
         IN [zoom |-> new_zoom, freq |-> clamp_center_frequency(freq1, z)]

\* -------------------------------------------------------------- dilation
\* Lines 110-121: the (zoom, center frequency) that apply_dilation leaves
\* in the waterfall.
apply_dilation(z, freq0, dilation, center) ==
    LET new_zoom == clamp_zoom(dilation.n * z, dilation.d) IN
    IF new_zoom = z
    THEN [zoom |-> z, freq |-> freq0]
    ELSE LET upp == units_per_px(z)
             c == freq0 + center * upp - Scale \div z
             freq1 == ((dilation.n - dilation.d) * c + dilation.d * freq0)
                          \div dilation.n
             freq2 == clamp_center_frequency(freq1, new_zoom)
         IN [zoom |-> new_zoom, freq |-> freq2]

ExactDilation(z, freq0, dilation, center) ==
    LET prod == dilation.n * z
        c == freq0 + center * units_per_px(z) - Scale \div z
    IN /\ ExactZoom(z)
       /\ \/ prod < min_zoom * dilation.d
          \/ prod > max_zoom * dilation.d
          \/ prod % dilation.d = 0
       /\ ExactZoom(clamp_zoom(prod, dilation.d))
       /\ ((dilation.n - dilation.d) * c + dilation.d * freq0) % dilation.n = 0

\* Line 129: dilation = exp(-1e-3 * delta_y), for delta_y = k * 1000 * ln 2.
Pow2(k) == IF k = 0 THEN 1 ELSE IF k = 1 THEN 2 ELSE IF k = 2 THEN 4 ELSE 8
wheel_dilation(k) ==
    IF k <= 0 THEN [n |-> Pow2(-k), d |-> 1] ELSE [n |-> 1, d |-> Pow2(k)]

\* ------------------------------------------------------------------ drag
shift_threshold == Scale \div 4

\* Resolution of hertz values, 1/HzScale Hz: 0.5 * shift_threshold of a
\* sample rate in whole hertz is a whole number of them.
HzScale == (2 * Scale) \div shift_threshold

\* Values of Waterfall::get_freq_samprate, in 1/HzScale Hz.
FcValues == { 0, 100 * HzScale }
FsValues == { 4 * HzScale, 10 * HzScale }

\* Mutant: a drag to the right moves the window to the right.
drag_freq_plus(freq0, z, dx) == freq0 + dx * units_per_px(z)

\* Line 184: the requested center frequency.
drag_freq(freq0, z, dx) == freq0 - dx * units_per_px(z)

\* Mutant: the attained part is accumulated with the wrong sign.
add_overflow_swapped(overflow, freq, clamped) == overflow + (clamped - freq)

\* Mutant: the unattained part replaces the accumulator.
add_overflow_replaced(overflow, freq, clamped) == freq - clamped

\* Line 187: *overflow += freq - clamped.
add_overflow(overflow, freq, clamped) == overflow + (freq - clamped)

\* Mutant: the threshold itself does not trigger a retune.
crosses_threshold_strict(overflow) == Abs(overflow) > shift_threshold

\* Mutant: a retune waits for twice the threshold.
crosses_threshold_late(overflow) == Abs(overflow) >= 2 * shift_threshold

\* Line 189: overflow.abs() >= shift_threshold.
crosses_threshold(overflow) == Abs(overflow) >= shift_threshold

\* Mutant: the shift is always positive.
copysign_ignored(magnitude, sign) == magnitude

\* Line 191: shift_threshold.copysign(*overflow).
copysign(magnitude, sign) == IF sign < 0 THEN -magnitude ELSE magnitude

\* Mutant: the shift is added instead of subtracted.
sub_shift_added(overflow, shift) == overflow + shift

\* Mutant: a retune clears the accumulator.
sub_shift_reset(overflow, shift) == 0

\* Line 192: *overflow -= shift.
sub_shift(overflow, shift) == overflow - shift

\* Mutant: the factor 0.5 is missing.
new_fc_whole_shift(fc0, shift, fs0) == fc0 + (shift * fs0) \div Scale

\* Line 194: fc + 0.5 * f64::from(shift) * fs, in 1/HzScale Hz.
new_fc(fc0, shift, fs0) == fc0 + (shift * fs0) \div (2 * Scale)

\* Line 195: new_fc as u64 (saturating, fraction discarded), in Hz.  The
\* values explored stay far below u64::MAX.
as_u64(x) == IF x < 0 THEN 0 ELSE x \div HzScale

\* Mutant: the sink's error is swallowed.
try_result_swallowed(sink_ok) == "Ok"

\* Line 195: the ? operator on the sink's answer.
try_result(sink_ok) == IF sink_ok THEN "Ok" ELSE "Err"

\* Mutant: the clamped frequency is committed on a retune too.
drag_center_always(crossed, freq0, clamped) == clamped

\* Lines 189-198: the center frequency the Drag arm leaves in the waterfall.
drag_center(crossed, freq0, clamped) == IF crossed THEN freq0 ELSE clamped

ExactDrag(z, shift, fs0) ==
    /\ ExactZoom(z)
    /\ (shift * fs0) % (2 * Scale) = 0

NoEvent == [handler |-> "none", gesture |-> "None", dx |-> 0,
            dilation |-> [n |-> 1, d |-> 1], center |-> 0, sink_ok |-> TRUE]

Snapshot == [zoom |-> zoom, freq |-> center_frequency,
             overflow |-> center_freq_overflow, pointers |-> pointers,
             fc |-> fc, fs |-> fs]

\* ------------------------------------------------------------------ Init
\* WaterfallInteraction::new: an empty pointer tracker, overflow 0.0; the
\* waterfall holds a valid view.
InitViews ==
    { [zoom |-> 1, freq |-> 0],
      [zoom |-> 4, freq |-> 0],
      [zoom |-> 4, freq |-> Scale \div 2],
      [zoom |-> 4, freq |-> (3 * Scale) \div 4],
      [zoom |-> 4, freq |-> -((3 * Scale) \div 4)],
      [zoom |-> 128, freq |-> 0],
      [zoom |-> 128, freq |-> Scale - Scale \div 128] }

\* --------------------------------------------------------------- history
\* Bookkeeping of the gesture in progress, kept beside the program's state:
\*   excess, shifts  sums, since the last reset, of requested_freq -
\*                   clamped_freq over the Drag steps and of the shifts
\*                   (0.25 signed as the accumulator) of the requests issued;
\*   run_*           the consecutive Drag steps without a retune up to now:
\*                   their number, the accumulator they started from and the
\*                   sum of their requested_freq - clamped_freq;
\*   dir, n, e, from the consecutive Drag steps beyond one clamp edge (dir)
\*                   with no retune in that direction yet: their number, the
\*                   least amount by which one of them exceeded the edge and
\*                   the accumulator they started from;
\*   done*           the same numbers for the run of steps that the step
\*                   handled last completed with a retune in its direction
\*                   (done = 0 if it completed none).
HistInit ==
    [excess |-> 0, shifts |-> 0, run_n |-> 0, run_base |-> 0, run_sum |-> 0,
     dir |-> 0, n |-> 0, e |-> 0, from |-> 0,
     done |-> 0, done_dir |-> 0, done_e |-> 0, done_from |-> 0]

Init ==
    /\ \E v \in InitViews : zoom = v.zoom /\ center_frequency = v.freq
    /\ center_freq_overflow = 0
    /\ pointers = 0
    /\ tracker_borrowed = FALSE
    /\ fc \in FcValues
    /\ fs \in FsValues
    /\ requests = << >>
    /\ result = "none"
    /\ last = NoEvent
    /\ before = Snapshot
    /\ steps = 0
    /\ hist = HistInit

\* --------------------------------------------------------------- gestures
\* process_gesture, PointerGesture::Drag arm (lines 181-199).
process_drag(dx, sink_ok) ==
    LET freq == drag_freq(center_frequency, zoom, dx)
        clamped == clamp_center_frequency(freq, zoom)
        overflow1 == add_overflow(center_freq_overflow, freq, clamped)
        crossed == crosses_threshold(overflow1)
        shift == copysign(shift_threshold, overflow1)
        overflow2 == sub_shift(overflow1, shift)
    IN /\ ExactDrag(zoom, shift, fs)
       /\ center_freq_overflow' = IF crossed THEN overflow2 ELSE overflow1
       /\ requests' = IF crossed THEN << as_u64(new_fc(fc, shift, fs)) >>
                                 ELSE << >>
       /\ result' = IF crossed THEN try_result(sink_ok) ELSE "Ok"
       /\ center_frequency' = drag_center(crossed, center_frequency, clamped)
       /\ UNCHANGED << zoom, fc, fs >>

\* Mutant: a pinch clears the accumulator.
process_pinch_clears(dilation, center) ==
    LET new == apply_dilation(zoom, center_frequency, dilation, center) IN
    /\ ExactDilation(zoom, center_frequency, dilation, center)
    /\ zoom' = new.zoom
    /\ center_frequency' = new.freq
    /\ requests' = << >>
    /\ result' = "Ok"
    /\ center_freq_overflow' = 0
    /\ UNCHANGED << fc, fs >>

\* process_gesture, PointerGesture::Pinch arm (lines 200-205).
process_pinch(dilation, center) ==
    LET new == apply_dilation(zoom, center_frequency, dilation, center) IN
    /\ ExactDilation(zoom, center_frequency, dilation, center)
    /\ zoom' = new.zoom
    /\ center_frequency' = new.freq
    /\ requests' = << >>
    /\ result' = "Ok"
    /\ UNCHANGED << center_freq_overflow, fc, fs >>

\* --------------------------------------------------------------- handlers
\* A pointer handler called while the tracker's RefCell is still mutably
\* borrowed panics in borrow_mut before it changes anything.
borrow_panics(handler) ==
    /\ tracker_borrowed
    /\ last' = [NoEvent EXCEPT !.handler = handler]
    /\ result' = "BorrowMutError"
    /\ requests' = << >>
    /\ UNCHANGED << zoom, center_frequency, center_freq_overflow, pointers,
                    tracker_borrowed, fc, fs >>

onwheel ==
    \E k \in WheelOctaves, x \in Pivots :
        LET dilation == wheel_dilation(k)
            new == apply_dilation(zoom, center_frequency, dilation, x)
        IN /\ ExactDilation(zoom, center_frequency, dilation, x)
           /\ zoom' = new.zoom
           /\ center_frequency' = new.freq
           /\ last' = [NoEvent EXCEPT !.handler = "onwheel",
                                      !.dilation = dilation, !.center = x]
           /\ requests' = << >>
           /\ result' = "none"
           /\ UNCHANGED << center_freq_overflow, pointers, tracker_borrowed,
                           fc, fs >>

on_pointer_down == IF pointers < MaxPointers THEN pointers + 1 ELSE pointers

onpointerdown ==
    \/ borrow_panics("onpointerdown")
    \/ /\ ~tracker_borrowed
       /\ pointers' = on_pointer_down
       /\ last' = [NoEvent EXCEPT !.handler = "onpointerdown"]
       /\ requests' = << >>
       /\ result' = "none"
       /\ UNCHANGED << zoom, center_frequency, center_freq_overflow,
                       tracker_borrowed, fc, fs >>

\* The event's pointer is one the tracker holds (tracked) or not.
on_pointer_up(tracked) == IF tracked THEN pointers - 1 ELSE pointers

\* Mutant: the accumulator is reset while a pointer remains, not when none does.
release_overflow_inverted(remaining) ==
    IF remaining = 0 THEN center_freq_overflow ELSE 0

\* Mutant: the accumulator is not reset on release.
release_overflow_kept(remaining) == center_freq_overflow

\* Lines 154-162: the accumulator after a release that leaves `remaining`
\* active pointers.
release_overflow(remaining) ==
    IF remaining = 0 THEN 0 ELSE center_freq_overflow

onpointerup ==
    \/ borrow_panics("onpointerup")
    \/ /\ ~tracker_borrowed
       /\ \E tracked \in BOOLEAN :
            /\ tracked => pointers > 0
            /\ pointers' = on_pointer_up(tracked)
       /\ center_freq_overflow' = release_overflow(pointers')
       /\ last' = [NoEvent EXCEPT !.handler = "onpointerup"]
       /\ requests' = << >>
       /\ result' = "none"
       /\ UNCHANGED << zoom, center_frequency, tracker_borrowed, fc, fs >>

\* Line 174: process_gesture(gesture).unwrap().  A panic aborts the handler;
\* where panics abort (wasm32) the RefMut of the tracker taken in the
\* condition of the if-let is never dropped, where they unwind it is.
unwrap_leaks(leak) == result' = "Err" /\ leak

onpointermove ==
    \/ borrow_panics("onpointermove")
    \/ /\ ~tracker_borrowed
       /\ last' = [NoEvent EXCEPT !.handler = "onpointermove"]
       /\ requests' = << >>
       /\ result' = "none"
       /\ UNCHANGED << zoom, center_frequency, center_freq_overflow, pointers,
                       tracker_borrowed, fc, fs >>
    \/ /\ ~tracker_borrowed
       /\ pointers = 1
       /\ \E dx \in -MaxDx .. MaxDx, sink_ok \in BOOLEAN, leak \in BOOLEAN :
            /\ process_drag(dx, sink_ok)
            /\ last' = [NoEvent EXCEPT !.handler = "onpointermove",
                                       !.gesture = "Drag", !.dx = dx,
                                       !.sink_ok = sink_ok]
            /\ tracker_borrowed' = unwrap_leaks(leak)
       /\ UNCHANGED pointers
    \/ /\ ~tracker_borrowed
       /\ pointers = 2
       /\ \E dilation \in Dilations, center \in Pivots :
            /\ process_pinch(dilation, center)
            /\ last' = [NoEvent EXCEPT !.handler = "onpointermove",
                                       !.gesture = "Pinch",
                                       !.dilation = dilation,
                                       !.center = center]
       /\ UNCHANGED << pointers, tracker_borrowed >>

\* Waterfall::set_freq_samprate: the tuning state the waterfall reports is
\* replaced when new metadata arrives.
set_freq_samprate ==
    /\ fc' \in FcValues
    /\ fs' \in FsValues
    /\ last' = [NoEvent EXCEPT !.handler = "set_freq_samprate"]
    /\ requests' = << >>
    /\ result' = "none"
    /\ UNCHANGED << zoom, center_frequency, center_freq_overflow, pointers,
                    tracker_borrowed >>

\* Quantities of the claims, computed from the state a handler started from.
Sgn(x) == IF x < 0 THEN -1 ELSE IF x > 0 THEN 1 ELSE 0
Min(a, b) == IF a < b THEN a ELSE b
Max(a, b) == IF a > b THEN a ELSE b

\* |c| <= 1 - 1/z, and |c| = 1 - 1/z.
InRange(c, z) == Abs(c) * z <= (z - 1) * Scale
AtBoundary(c, z) == Abs(c) * z = (z - 1) * Scale
\* 1 - 1/z.
Bound(z) == ((z - 1) * Scale) \div z
\* clamp_center(f, z) = min(max(f, -(1 - 1/z)), 1 - 1/z).
ClampCenter(f, z) == Min(Max(f, -Bound(z)), Bound(z))
\* requested_freq = center_frequency - dx * (2 / zoom) / pixel_width.
Requested == before.freq - (last.dx * 2 * Scale) \div (before.zoom * CanvasWidth)
\* overflow after adding requested_freq - clamped_freq.
Accumulated ==
    before.overflow + (Requested - ClampCenter(Requested, before.zoom))

IsDrag == last.gesture = "Drag"
IsZoomEvent == last.gesture = "Pinch" \/ last.handler = "onwheel"
IsRelease == last.handler = "onpointerup"
Retuned == IsDrag /\ Len(requests) > 0

\* requested_freq - clamped_freq of the Drag handled last.
Excess == Requested - ClampCenter(Requested, before.zoom)
\* The last pointer was released: the accumulator is reset.
IsReset == IsRelease /\ pointers = 0 /\ result # "BorrowMutError"

\* The bookkeeping after one event, from the event and the state it left.
NextHist(h) ==
    LET drag == IsDrag'
        x == IF drag THEN Excess' ELSE 0
        acc == Accumulated'
        req == drag /\ Len(requests') > 0
        inrun == drag /\ ~req
        s == Sgn(x)
        same == h.dir = s
        hit == x # 0 /\ req /\ Sgn(acc) = s
        open == x # 0 /\ ~hit
        n1 == IF same THEN h.n + 1 ELSE 1
        e1 == IF same THEN Min(h.e, Abs(x)) ELSE Abs(x)
        f1 == IF same THEN h.from ELSE before'.overflow
    IN [excess |-> IF IsReset' THEN 0 ELSE h.excess + x,
        shifts |-> IF IsReset' THEN 0
                   ELSE IF req THEN h.shifts + Sgn(acc) * (Scale \div 4)
                   ELSE h.shifts,
        run_n |-> IF inrun THEN h.run_n + 1 ELSE 0,
        run_base |-> IF ~inrun THEN 0
                     ELSE IF h.run_n = 0 THEN before'.overflow
                     ELSE h.run_base,
        run_sum |-> IF ~inrun THEN 0
                    ELSE IF h.run_n = 0 THEN x
                    ELSE h.run_sum + x,
        dir |-> IF open THEN s ELSE 0,
        n |-> IF open THEN n1 ELSE 0,
        e |-> IF open THEN e1 ELSE 0,
        from |-> IF open THEN f1 ELSE 0,
        done |-> IF hit THEN n1 ELSE 0,
        done_dir |-> IF hit THEN s ELSE 0,
        done_e |-> IF hit THEN e1 ELSE 0,
        done_from |-> IF hit THEN f1 ELSE 0]

\* One event of the host event loop, handled to completion.
handle(handler) ==
    /\ steps < MaxSteps
    /\ steps' = steps + 1
    /\ before' = Snapshot
    /\ handler
    /\ UNCHANGED hist

Next ==
    \/ handle(onwheel)
    \/ handle(onpointerdown)
    \/ handle(onpointerup)
    \/ handle(onpointermove)
    \/ handle(set_freq_samprate)

Spec == Init /\ [][Next]_vars

TypeOK ==
    /\ zoom \in min_zoom .. max_zoom
    /\ center_frequency \in -Scale .. Scale
    /\ pointers \in 0 .. MaxPointers
    /\ tracker_borrowed \in BOOLEAN
    /\ Len(requests) <= 1

\* ----------------------------------------------------- a long gesture
\* The same handlers followed over a longer sequence of events, with the
\* bookkeeping of the gesture kept up to date.  The waterfall starts from
\* one of the views of zoom 4 and keeps one tuning: no metadata arrives
\* meanwhile.
GestureInit ==
    /\ Init
    /\ zoom = 4
    /\ fc = 100 * HzScale
    /\ fs = 4 * HzScale

track(handler) ==
    /\ steps < MaxGestureSteps
    /\ steps' = steps + 1
    /\ before' = Snapshot
    /\ handler
    /\ hist' = NextHist(hist)

GestureNext ==
    \/ track(onwheel)
    \/ track(onpointerdown)
    \/ track(onpointerup)
    \/ track(onpointermove)

SpecGesture == GestureInit /\ [][GestureNext]_vars

\* ------------------------------------------------- the clamp functions
\* clamp_zoom and clamp_center_frequency applied to arguments of their
\* own, once and then to their own result.  `before` holds the arguments,
\* `last` the number of applications and the results.
ClampZooms == { 1, 2, 4, 8, 16, 32, 64, 128 }
ClampInputs ==
    { [op |-> "clamp_center_frequency", f |-> f, z |-> z, n |-> 0, d |-> 1] :
        f \in -(MaxClampInput * Scale) .. MaxClampInput * Scale,
        z \in ClampZooms }
    \cup
    { [op |-> "clamp_zoom", f |-> 0, z |-> 1, n |-> n, d |-> d] :
        n \in 0 .. MaxClampInput * max_zoom, d \in { 1, 2, 4 } }

ClampInit ==
    /\ before \in ClampInputs
    /\ before.op = "clamp_zoom" =>
          \/ before.n < min_zoom * before.d
          \/ before.n > max_zoom * before.d
          \/ before.n % before.d = 0
    /\ last = [applied |-> 0, once |-> 0, twice |-> 0]
    /\ zoom = min_zoom
    /\ center_frequency = 0
    /\ center_freq_overflow = 0
    /\ pointers = 0
    /\ tracker_borrowed = FALSE
    /\ fc = 0
    /\ fs = 0
    /\ requests = << >>
    /\ result = "none"
    /\ steps = 0
    /\ hist = HistInit

apply_clamp_zoom ==
    /\ before.op = "clamp_zoom"
    /\ \/ /\ last.applied = 0
          /\ last' = [applied |-> 1, twice |-> 0,
                      once |-> clamp_zoom(before.n, before.d)]
       \/ /\ last.applied = 1
          /\ last' = [last EXCEPT !.applied = 2,
                                  !.twice = clamp_zoom(last.once, 1)]
    /\ UNCHANGED << zoom, center_frequency, center_freq_overflow, pointers,
                    tracker_borrowed, fc, fs, requests, result, before, steps,
                    hist >>

apply_clamp_center ==
    /\ before.op = "clamp_center_frequency"
    /\ \/ /\ last.applied = 0
          /\ last' = [applied |-> 1, twice |-> 0,
                      once |-> clamp_center_frequency(before.f, before.z)]
       \/ /\ last.applied = 1
          /\ last' = [last EXCEPT
                        !.applied = 2,
                        !.twice = clamp_center_frequency(last.once, before.z)]
    /\ UNCHANGED << zoom, center_frequency, center_freq_overflow, pointers,
                    tracker_borrowed, fc, fs, requests, result, before, steps,
                    hist >>

ClampNext == apply_clamp_zoom \/ apply_clamp_center

SpecClamp == ClampInit /\ [][ClampNext]_vars

\* ================================================================ claims
\* C1: in every reachable state |center_frequency| <= 1 - 1/zoom for the
\* current zoom; a zoom change commits a center clamped to the new zoom.
C1_CenterWithinBound == InRange(center_frequency, zoom)

\* A zoom change whose old center does not fit the range of the new zoom.
C1_Witness ==
    /\ IsZoomEvent
    /\ zoom # before.zoom
    /\ ~InRange(before.freq, zoom)
    /\ AtBoundary(center_frequency, zoom)

\* C2: the zoom lies in [1, 128]; a Pinch or wheel event commits
\* clamp(dilation * zoom, 1, 128); Drag and release leave the zoom alone.
C2_ZoomClamped ==
    /\ zoom >= 1
    /\ zoom <= 128
    /\ IsZoomEvent =>
         LET n == last.dilation.n * before.zoom
             d == last.dilation.d
         IN \/ n <= d /\ zoom = 1
            \/ n >= 128 * d /\ zoom = 128
            \/ d < n /\ n < 128 * d /\ zoom * d = n
    /\ (IsDrag \/ IsRelease) => zoom = before.zoom

\* A pinch whose product dilation * zoom exceeds 128.
C2_Witness ==
    /\ last.gesture = "Pinch"
    /\ last.dilation.n * before.zoom > 128 * last.dilation.d
    /\ before.zoom < 128
    /\ zoom = 128

\* C3 as stated: the accumulator is nonzero only while the view is at a
\* clamp boundary.
C3_Original ==
    center_freq_overflow # 0 => AtBoundary(center_frequency, zoom)

\* C3, amended: a Drag step without a retune changes the accumulator only
\* when the requested frequency is outside the range of the zoom, and it
\* then leaves the view at the clamp boundary on that side.
C3_GrowsAtBoundary ==
    (IsDrag /\ Len(requests) = 0 /\ center_freq_overflow # before.overflow) =>
        /\ ~InRange(Requested, zoom)
        /\ center_frequency * zoom =
               Sgn(center_freq_overflow - before.overflow) * (zoom - 1) * Scale

C3_Witness ==
    /\ IsDrag
    /\ Len(requests) = 0
    /\ center_freq_overflow # before.overflow
    /\ zoom > 1

\* C4: a Drag step issues exactly one retune request if |overflow| >= 0.25
\* after the addition and none otherwise; no step issues more than one.
C4_OneRequestAtThreshold ==
    /\ Len(requests) <= 1
    /\ IsDrag =>
         Len(requests) = IF 4 * Abs(Accumulated) >= Scale THEN 1 ELSE 0

\* A drag that brings the accumulator to exactly the threshold.
C4_Witness ==
    /\ IsDrag
    /\ 4 * Abs(Accumulated) = Scale
    /\ 4 * Abs(before.overflow) < Scale
    /\ Len(requests) = 1

\* C5 as stated: after a Drag step that emitted a retune, |overflow| < 0.25.
C5_Original == Retuned => 4 * Abs(center_freq_overflow) < Scale

\* C5, amended: after a Drag step that emitted a retune, |overflow| < 0.25
\* exactly when |overflow| was below 0.5 before the emission; one step
\* takes 0.25 off and no more.
C5_BelowThresholdUnlessHalf ==
    Retuned =>
        /\ 4 * Abs(center_freq_overflow) = 4 * Abs(Accumulated) - Scale
        /\ 4 * Abs(center_freq_overflow) < Scale <=> 2 * Abs(Accumulated) < Scale

\* A single drag whose unattainable portion is 0.5 or more.
C5_Witness ==
    /\ Retuned
    /\ before.overflow = 0
    /\ 2 * Abs(Accumulated) >= Scale
    /\ 4 * Abs(center_freq_overflow) >= Scale

\* C6: a release that leaves no active pointer sets the accumulator to 0
\* and leaves zoom and center frequency alone; a release that leaves a
\* pointer active leaves the accumulator alone.
C6_ReleaseResets ==
    IsRelease =>
        /\ zoom = before.zoom
        /\ center_frequency = before.freq
        /\ pointers = 0 => center_freq_overflow = 0
        /\ pointers > 0 => center_freq_overflow = before.overflow

\* The last pointer is released with pan debt outstanding.
C6_Witness ==
    /\ IsRelease
    /\ before.pointers = 1
    /\ before.overflow # 0
    /\ pointers = 0
    /\ center_freq_overflow = 0

\* C7: when the sink rejects the request of a Drag step, process_gesture
\* returns the error; the accumulator stays decremented by the shift, and
\* zoom, center frequency and the tuning state are as before the step.
C7_SinkFailure ==
    (Retuned /\ ~last.sink_ok) =>
        /\ result = "Err"
        /\ 4 * center_freq_overflow = 4 * Accumulated - Sgn(Accumulated) * Scale
        /\ zoom = before.zoom
        /\ center_frequency = before.freq
        /\ fc = before.fc
        /\ fs = before.fs

C7_Witness ==
    /\ Retuned
    /\ ~last.sink_ok
    /\ result = "Err"
    /\ center_freq_overflow # Accumulated

\* C8 as stated: the frequency requested is fc + 0.5 * shift * fs, with
\* shift = 0.25 signed as the accumulator, in every tuning state.
C8_Original ==
    Retuned =>
        8 * (requests[1] * HzScale - before.fc) = Sgn(Accumulated) * before.fs

\* C8, amended: the frequency requested is fc + 0.5 * shift * fs converted
\* to an unsigned whole number of hertz: the fraction is dropped and a
\* negative sum gives 0.
C8_RequestTruncated ==
    Retuned =>
        LET sum8 == 8 * before.fc + Sgn(Accumulated) * before.fs
            hz == requests[1]
        IN IF sum8 < 0 THEN hz = 0
           ELSE /\ 8 * HzScale * hz <= sum8
                /\ sum8 < 8 * HzScale * (hz + 1)

\* A retune downwards from fc = 0: the sum is negative.
C8_Witness ==
    /\ Retuned
    /\ 8 * before.fc + Sgn(Accumulated) * before.fs < 0
    /\ requests[1] = 0

\* C9 as stated: on a Drag step that emits a retune the center frequency
\* keeps its value, that value being the clamped position; zoom unchanged.
C9_Original ==
    Retuned =>
        /\ center_frequency = before.freq
        /\ center_frequency = ClampCenter(Requested, zoom)
        /\ zoom = before.zoom

\* C9, amended: on a Drag step that emits a retune the center frequency
\* and the zoom keep their values; the center frequency is the clamped
\* position only if the view stood there before the step.
C9_ViewKeptOnRetune ==
    Retuned =>
        /\ center_frequency = before.freq
        /\ zoom = before.zoom

\* A retune from inside the range: the view does not move to the boundary.
C9_Witness ==
    /\ Retuned
    /\ center_frequency = before.freq
    /\ center_frequency # ClampCenter(Requested, zoom)

\* C10: a Drag step below the threshold commits
\* clamp_center(center_frequency - dx * units_per_pixel, zoom); dx > 0
\* never increases the center frequency, dx < 0 never decreases it, and
\* dx = 0 leaves it alone.
C10_DragCommitsClamped ==
    (IsDrag /\ Len(requests) = 0) =>
        /\ center_frequency = ClampCenter(Requested, before.zoom)
        /\ last.dx > 0 => center_frequency <= before.freq
        /\ last.dx < 0 => center_frequency >= before.freq
        /\ last.dx = 0 => center_frequency = before.freq

\* A drag to the right that moves the window to the left.
C10_Witness ==
    /\ IsDrag
    /\ Len(requests) = 0
    /\ last.dx > 0
    /\ center_frequency < before.freq
    /\ center_frequency = Requested

\* clamp(dilation * zoom, 1, 128) for the event handled last.
ClampedProduct ==
    LET n == last.dilation.n * before.zoom
        d == last.dilation.d
    IN IF n <= d THEN 1 ELSE IF n >= 128 * d THEN 128 ELSE n \div d

\* C11: a Pinch or wheel event whose clamped zoom equals the current zoom
\* changes neither zoom nor center frequency, whatever the pivot.
C11_ZoomNoOp ==
    (IsZoomEvent /\ ClampedProduct = before.zoom) =>
        /\ zoom = before.zoom
        /\ center_frequency = before.freq

\* Zooming in at zoom 128 about a pivot off the center of the surface.
C11_Witness ==
    /\ IsZoomEvent
    /\ before.zoom = 128
    /\ last.dilation.n > last.dilation.d
    /\ 2 * last.center # CanvasWidth
    /\ zoom = 128
    /\ center_frequency = before.freq

\* The frequency at pixel p for a view: center + p * units_per_pixel - 1/zoom.
FreqAtPixel(c, z, p) == c + (p * 2 * Scale) \div (z * CanvasWidth) - Scale \div z
\* No clamping is triggered: dilation * zoom is within [1, 128] and the
\* center that keeps the pivot's frequency is within the range of the new zoom.
NoClamping ==
    /\ zoom * last.dilation.d = last.dilation.n * before.zoom
    /\ InRange(FreqAtPixel(before.freq, before.zoom, last.center)
                 - FreqAtPixel(0, zoom, last.center), zoom)

\* C12: a zoom operation that triggers no clamping leaves the frequency at
\* the pivot pixel as it was; zoom = 1, center = 0, dilation 2 about the
\* middle of the surface gives zoom = 2, center = 0.
C12_PivotPreserved ==
    IsZoomEvent =>
        /\ NoClamping =>
             FreqAtPixel(center_frequency, zoom, last.center) =
                 FreqAtPixel(before.freq, before.zoom, last.center)
        /\ ( /\ before.zoom = 1
             /\ before.freq = 0
             /\ last.dilation = [n |-> 2, d |-> 1]
             /\ 2 * last.center = CanvasWidth ) =>
               (zoom = 2 /\ center_frequency = 0)

\* A zoom about a pivot off the middle: the center frequency moves and the
\* frequency at the pivot stays.
C12_Witness ==
    /\ IsZoomEvent
    /\ zoom # before.zoom
    /\ NoClamping
    /\ center_frequency # before.freq
    /\ FreqAtPixel(center_frequency, zoom, last.center) =
           FreqAtPixel(before.freq, before.zoom, last.center)

\* C17: on a Drag step that emits a retune the shift has the sign of the
\* accumulator, and the accumulator moves toward zero by exactly 0.25
\* without changing sign.
C17_ShiftTowardZero ==
    Retuned =>
        /\ Accumulated - center_freq_overflow = Sgn(Accumulated) * (Scale \div 4)
        /\ Sgn(center_freq_overflow) \in {0, Sgn(Accumulated)}
        /\ 4 * Abs(center_freq_overflow) = 4 * Abs(Accumulated) - Scale
        /\ Accumulated > 0 => requests[1] * HzScale + HzScale > before.fc
        /\ Accumulated < 0 => requests[1] * HzScale <= before.fc

\* A retune downwards that leaves a negative remainder.
C17_Witness ==
    /\ Retuned
    /\ Accumulated < 0
    /\ center_freq_overflow < 0
    /\ center_freq_overflow > Accumulated

\* C18: a Pinch or wheel event never changes the accumulator and never
\* issues a retune request.
C18_ZoomKeepsDebt ==
    IsZoomEvent =>
        /\ center_freq_overflow = before.overflow
        /\ Len(requests) = 0

\* A pinch that moves the clamp boundary while pan debt is outstanding.
C18_Witness ==
    /\ last.gesture = "Pinch"
    /\ before.overflow # 0
    /\ zoom # before.zoom
    /\ center_freq_overflow = before.overflow

\* C19: whenever no pointer is active the accumulator is 0.
C19_IdleMeansNoDebt == pointers = 0 => center_freq_overflow = 0

\* No pointer is active after a gesture in which a retune was issued and
\* debt was left over.
C19_Witness ==
    /\ pointers = 0
    /\ steps >= 3
    /\ before.pointers = 1
    /\ 4 * Abs(before.overflow) >= Scale
    /\ center_freq_overflow = 0

\* C14: clamp_zoom and clamp_center are idempotent: applied to their own
\* result they return it.
C14_ClampIdempotent == last.applied = 2 => last.twice = last.once

\* clamp_center applied twice to a frequency more than three half-ranges out.
C14_Witness ==
    /\ last.applied = 2
    /\ before.op = "clamp_center_frequency"
    /\ before.z > 1
    /\ Abs(before.f) * before.z > 3 * (before.z - 1) * Scale
    /\ last.once # before.f

\* C15: for zoom in [1, 128], clamp_center(f, zoom) lies within
\* [-(1 - 1/zoom), 1 - 1/zoom] and is f when f lies there; at zoom 1 it is 0.
C15_ClampCenterRange ==
    (last.applied = 1 /\ before.op = "clamp_center_frequency") =>
        /\ InRange(last.once, before.z)
        /\ InRange(before.f, before.z) => last.once = before.f
        /\ before.z = 1 => last.once = 0

\* clamp_center at zoom 1 of a frequency other than 0.
C15_Witness ==
    /\ last.applied = 1
    /\ before.op = "clamp_center_frequency"
    /\ before.z = 1
    /\ before.f # 0
    /\ last.once = 0

\* C13: over consecutive Drag steps with no threshold crossing (and no other
\* event between them) the accumulator is the value it started from plus the
\* sum of requested_freq - clamped_freq over the steps; such a step whose
\* requested frequency is within the valid range leaves it unchanged.
C13_OverflowConserved ==
    /\ hist.run_n > 0 => center_freq_overflow = hist.run_base + hist.run_sum
    /\ (IsDrag /\ ~Retuned /\ InRange(Requested, before.zoom)) =>
           center_freq_overflow = before.overflow

\* Two or more Drag steps past an edge, started from a nonzero accumulator,
\* the last of them adding to it.
C13_Witness ==
    /\ hist.run_n >= 2
    /\ hist.run_base # 0
    /\ hist.run_sum # 0
    /\ center_freq_overflow # before.overflow

\* C16: since the last reset of the accumulator, overflow plus the sum of
\* the shifts (+0.25 or -0.25) of the retune requests issued equals the sum
\* over the Drag steps of requested_freq - clamped_freq.
C16_DebtAccounted == center_freq_overflow + hist.shifts = hist.excess

\* A zoom event after a retune that left pan debt in the accumulator.
C16_Witness ==
    /\ IsZoomEvent
    /\ hist.shifts # 0
    /\ center_freq_overflow # 0
    /\ hist.excess # hist.shifts

\* Debt of the sign opposite to dir held by an accumulator value.
Debt(dir, overflow) == Max(0, -(dir * overflow))
BelowThreshold(overflow) == 4 * Abs(overflow) < Scale

\* C20, as stated: Drag steps that keep requesting a pan beyond the same
\* edge by at least e, counted from an accumulator below threshold, get a
\* retune in that direction within ceil(0.25 / e) steps: n steps without one
\* have n * e < 0.25, and the retune comes while (n - 1) * e < 0.25.
C20_Original ==
    /\ (hist.dir # 0 /\ BelowThreshold(hist.from)) =>
           4 * hist.n * hist.e < Scale
    /\ (hist.done > 0 /\ BelowThreshold(hist.done_from)) =>
           4 * (hist.done - 1) * hist.done_e < Scale

\* C20: Drag steps that keep requesting a pan beyond the same edge by at
\* least e get a retune in that direction within ceil((0.25 + D) / e) steps,
\* D being the debt of the opposite sign the accumulator held when they
\* started (0 if it held none).
C20_RetuneWithinDebt ==
    /\ hist.dir # 0 =>
           4 * hist.n * hist.e < Scale + 4 * Debt(hist.dir, hist.from)
    /\ hist.done > 0 =>
           4 * (hist.done - 1) * hist.done_e
               < Scale + 4 * Debt(hist.done_dir, hist.done_from)

\* A retune that came only with the second or a later step past the edge,
\* after the steps had first paid off debt of the opposite sign.
C20_Witness ==
    /\ hist.done >= 2
    /\ Debt(hist.done_dir, hist.done_from) > 0
    /\ Retuned
====
